---- MODULE Spec2Model ----
(***************************************************************************)
(* Model of the twitch_client_rs protocol layer: the tag grammar           *)
(* (src/src/tags.rs), the line grammar (src/src/irc.rs) and the session    *)
(* state machine (src/src/twitch_client.rs).                               *)
(*                                                                         *)
(* Text is a sequence of tokens.  A token is one character of the          *)
(* protocol's punctuation (" ", ":", "@", "!", ";", "=", "/", ",", "#",    *)
(* "\n", "\r"), one decimal digit, or a word: a run of other               *)
(* characters, at least two characters long, kept atomic.  Splitting,      *)
(* prefix tests and number parsing are computed on these sequences the way *)
(* the code computes them on strings.                                      *)
(***************************************************************************)
EXTENDS Integers, Sequences, FiniteSets, TLC

(***************************************************************************)
(* Result values.                                                          *)
(***************************************************************************)
Ok(v) == [kind |-> "Ok", val |-> v]
Err(e) == [kind |-> "Err", err |-> e]
\* An unwrap() on None: the call does not return, the thread unwinds.
Panic == [kind |-> "Panic"]

\* error.rs: the MessageParseError variants the parsers build.
MissingTag(k) == [variant |-> "MissingTag", args |-> <<k>>]
InvalidTag(v) == [variant |-> "InvalidTag", args |-> <<v>>]
InvalidBadge(v) == [variant |-> "InvalidBadge", args |-> <<v>>]
InvalidBadgeVersion(v) == [variant |-> "InvalidBadgeVersion", args |-> <<v>>]
InvalidBoolValue(k, v) == [variant |-> "InvalidBoolValue", args |-> <<k, v>>]
InvalidUserType(v) == [variant |-> "InvalidUserType", args |-> <<v>>]

(***************************************************************************)
(* String primitives on token sequences.                                   *)
(***************************************************************************)
Digits == {"0", "1", "2", "3", "4", "5", "6", "7", "8", "9"}

DigitVal(d) ==
  CASE d = "0" -> 0 [] d = "1" -> 1 [] d = "2" -> 2 [] d = "3" -> 3
    [] d = "4" -> 4 [] d = "5" -> 5 [] d = "6" -> 6 [] d = "7" -> 7
    [] d = "8" -> 8 [] d = "9" -> 9

Punctuation == {" ", ":", "@", "!", ";", "=", "/", ",", "#", "\n", "\r"}

\* The number of characters of a token is 1 for punctuation and digits; a
\* word has at least two, and only "at least two" is ever asked.
IsOneChar(t) == t \in Punctuation \cup Digits

\* char::is_whitespace on the tokens of one line.
IsSpace(t) == t \in {" ", "\r", "\n"}

\* str::split(delim): the segments between the delimiters, never empty as a
\* list (the empty string splits into one empty segment).
RECURSIVE SplitAcc(_, _, _, _)
SplitAcc(s, d, cur, acc) ==
  IF s = <<>> THEN Append(acc, cur)
  ELSE IF Head(s) = d THEN SplitAcc(Tail(s), d, <<>>, Append(acc, cur))
  ELSE SplitAcc(Tail(s), d, Append(cur, Head(s)), acc)

Split(s, d) == SplitAcc(s, d, <<>>, <<>>)

\* str::contains(char)
Contains(s, c) == \E i \in 1..Len(s) : s[i] = c

\* str::parse::<u32>(): a non-empty run of decimal digits (the bounded
\* inputs stay far below 2^32, where the parse would fail).
RECURSIVE DecimalAcc(_, _)
DecimalAcc(s, acc) ==
  IF s = <<>> THEN acc ELSE DecimalAcc(Tail(s), 10 * acc + DigitVal(Head(s)))

ParseU32(s) ==
  IF s # <<>> /\ \A i \in 1..Len(s) : s[i] \in Digits
  THEN Ok(DecimalAcc(s, 0))
  ELSE Err("ParseIntError")

\* str::lines(): split on "\n", drop one trailing "\r" of each line, and no
\* final empty line after a trailing "\n" (or for the empty text).
StripCR(l) ==
  IF l # <<>> /\ l[Len(l)] = "\r" THEN SubSeq(l, 1, Len(l) - 1) ELSE l

LinesFromParts(parts) ==
  [i \in 1..(IF parts[Len(parts)] = <<>> THEN Len(parts) - 1 ELSE Len(parts)) |->
     StripCR(parts[i])]

TextLines(text) == LinesFromParts(Split(text, "\n"))

(***************************************************************************)
(* tags.rs                                                                 *)
(***************************************************************************)
EmptyMap == [k \in {} |-> <<>>]

\* HashMap::insert: a later entry for the same key replaces the earlier one.
MapInsert(m, k, v) == [x \in DOMAIN m \cup {k} |-> IF x = k THEN v ELSE m[x]]

\* HashMap::get
MapGet(m, k) == IF k \in DOMAIN m THEN Ok(m[k]) ELSE Err("None")

\* The closure of parse_tags: one "key=value" entry to a (key, value) pair.
\* The key is the segment before the first '=', the value the segment
\* between the first and the second '='.
EntryFromParts(kv, parts) ==
  IF Len(parts) < 2 THEN Err(InvalidTag(kv)) ELSE Ok(<<parts[1], parts[2]>>)

parse_tag_entry(kv) == EntryFromParts(kv, Split(kv, "="))

\* collect::<Result<HashMap<_, _>, _>>(): the first error, or the map of
\* all the pairs.
RECURSIVE CollectTags(_, _)
CollectNext(r, rest, m) ==
  IF r.kind = "Err" THEN r
  ELSE CollectTags(rest, MapInsert(m, r.val[1], r.val[2]))

CollectTags(entries, m) ==
  IF entries = <<>> THEN Ok(m)
  ELSE CollectNext(parse_tag_entry(Head(entries)), Tail(entries), m)

parse_tags(tags_component) == CollectTags(Split(tags_component, ";"), EmptyMap)

\* impl TryFrom<&str> for UserType
UserType_try_from(value) ==
  CASE value = <<>> -> Ok("User")
    [] value = <<"admin">> -> Ok("Admin")
    [] value = <<"global_mod">> -> Ok("GlobalMod")
    [] value = <<"staff">> -> Ok("Staff")
    [] OTHER -> Err(InvalidUserType(value))

BadgeName(name) ==
  CASE name = <<"admin">> -> "Admin"
    [] name = <<"bits">> -> "Bits"
    [] name = <<"broadcaster">> -> "Broadcaster"
    [] name = <<"moderator">> -> "Moderator"
    [] name = <<"subscriber">> -> "Subscriber"
    [] name = <<"staff">> -> "Staff"
    [] name = <<"turbo">> -> "Turbo"
    [] OTHER -> "Other"

\* impl TryFrom<&str> for Badge
BadgeFromVersion(value, name, version) ==
  IF version.kind = "Err" THEN Err(InvalidBadgeVersion(value))
  ELSE Ok([badge |-> BadgeName(name), version |-> version.val])

BadgeFromParts(value, parts) ==
  IF Len(parts) < 2 THEN Err(InvalidBadge(value))
  ELSE BadgeFromVersion(value, parts[1], ParseU32(parts[2]))

Badge_try_from(value) == BadgeFromParts(value, Split(value, "/"))

try_get_bool(tags, key) ==
  IF key \notin DOMAIN tags THEN Err(MissingTag(key))
  ELSE CASE tags[key] = <<"1">> -> Ok(TRUE)
         [] tags[key] = <<"0">> -> Ok(FALSE)
         [] OTHER -> Err(InvalidBoolValue(key, tags[key]))

\* split(',').filter(non-empty).map(Badge::try_from).collect(): the first
\* error, or the list of all the badges.
RECURSIVE CollectBadges(_, _)
CollectBadge(b, rest, acc) ==
  IF b.kind = "Err" THEN b ELSE CollectBadges(rest, Append(acc, b.val))

CollectBadges(entries, acc) ==
  IF entries = <<>> THEN Ok(acc)
  ELSE IF Head(entries) = <<>> THEN CollectBadges(Tail(entries), acc)
  ELSE CollectBadge(Badge_try_from(Head(entries)), Tail(entries), acc)

try_get_badges(tags) ==
  IF <<"badges">> \notin DOMAIN tags THEN Err(MissingTag(<<"badges">>))
  ELSE CollectBadges(Split(tags[<<"badges">>], ","), <<>>)

\* .map_err(|_| InvalidTag(value)) on the result of UserType::try_from.
UserTypeOrInvalidTag(value, t) ==
  IF t.kind = "Err" THEN Err(InvalidTag(value)) ELSE t

try_get_user_type(tags) ==
  IF <<"user-type">> \notin DOMAIN tags THEN Err(MissingTag(<<"user-type">>))
  ELSE UserTypeOrInvalidTag(tags[<<"user-type">>],
                            UserType_try_from(tags[<<"user-type">>]))

(***************************************************************************)
(* irc.rs                                                                  *)
(***************************************************************************)
Some(v) == [kind |-> "Some", val |-> v]
None == [kind |-> "None"]

\* A word that has a dispatch keyword as a proper prefix (words are atomic,
\* so str::starts_with is a table on the first token).
LongerWords(kw) == IF kw = "PART" THEN {"PARTY"} ELSE {}

\* str::starts_with(keyword)
StartsWith(s, kw) == s # <<>> /\ (s[1] = kw \/ s[1] \in LongerWords(kw))

\* The index of the first token of s at or after position from that
\* satisfies IsSpace, or 0.
FirstSpace(s, from) ==
  IF \E i \in from..Len(s) : IsSpace(s[i])
  THEN CHOOSE i \in from..Len(s) :
         IsSpace(s[i]) /\ \A j \in from..(i - 1) : ~IsSpace(s[j])
  ELSE 0

FirstColon(s) ==
  IF Contains(s, ":")
  THEN CHOOSE i \in 1..Len(s) : s[i] = ":" /\ \A j \in 1..(i - 1) : s[j] # ":"
  ELSE 0

NoMatch == [matched |-> FALSE]

\* "[^:]+[^:\s]": at least two characters, none a colon, the last one not a
\* space.
IsCommand(s) ==
  /\ s # <<>>
  /\ Len(s) >= 2 \/ ~IsOneChar(s[1])
  /\ ~Contains(s, ":")
  /\ ~IsSpace(s[Len(s)])

\* "(?<command>[^:]+[^:\s])(?:\s:(?<parameters>.*))?$" on the rest of the
\* line, p being the position of its first colon (0: none): the command
\* runs to the end of the line, or to the space before the first colon.
CommandAndParameters(tags, source, rest, p) ==
  IF p = 0
  THEN IF IsCommand(rest)
       THEN [matched |-> TRUE, tags |-> tags, source |-> source,
             command |-> rest, parameters |-> None]
       ELSE NoMatch
  ELSE IF p >= 3 /\ IsSpace(rest[p - 1]) /\ IsCommand(SubSeq(rest, 1, p - 2))
       THEN [matched |-> TRUE, tags |-> tags, source |-> source,
             command |-> SubSeq(rest, 1, p - 2),
             parameters |-> Some(SubSeq(rest, p + 1, Len(rest)))]
       ELSE NoMatch

MatchCommand(tags, source, rest) ==
  CommandAndParameters(tags, source, rest, FirstColon(rest))

\* "(?::(?<source>\S+)\s)?" at position pos, e being the position of the
\* first space at or after pos: taken (the colon, a non-empty run of
\* non-space characters, one space) or skipped.
MatchSource(line, tags, pos, e, useSource) ==
  IF ~useSource THEN MatchCommand(tags, None, SubSeq(line, pos, Len(line)))
  ELSE IF pos <= Len(line) /\ line[pos] = ":" /\ e > pos + 1
  THEN MatchCommand(tags, Some(SubSeq(line, pos + 1, e - 1)),
                    SubSeq(line, e + 1, Len(line)))
  ELSE NoMatch

\* "^(?:@(?<tags>\S+)\s)?", e being the position of the first space of the
\* line: taken or skipped, and the rest of the pattern after it.
MatchTags(line, e, useTags, useSource) ==
  IF ~useTags THEN MatchSource(line, None, 1, FirstSpace(line, 1), useSource)
  ELSE IF line # <<>> /\ line[1] = "@" /\ e > 2
  THEN MatchSource(line, Some(SubSeq(line, 2, e - 1)), e + 1,
                   FirstSpace(line, e + 1), useSource)
  ELSE NoMatch

\* One way through the two optional groups of MESSAGE_PATTERN.
MatchWith(line, useTags, useSource) ==
  MatchTags(line, FirstSpace(line, 1), useTags, useSource)

\* Leftmost-first: the first way that matches.
FirstMatch(tries) ==
  IF \E i \in 1..Len(tries) : tries[i].matched
  THEN tries[CHOOSE i \in 1..Len(tries) :
               tries[i].matched /\ \A j \in 1..(i - 1) : ~tries[j].matched]
  ELSE NoMatch

\* MESSAGE_PATTERN.captures(line): an optional group is taken when the rest
\* can still match, skipped otherwise.
MESSAGE_PATTERN(line) ==
  FirstMatch(<<MatchWith(line, TRUE, TRUE), MatchWith(line, TRUE, FALSE),
               MatchWith(line, FALSE, TRUE), MatchWith(line, FALSE, FALSE)>>)

\* The two parts.next() of parse_source.
SourceFromParts(parts) == [nick |-> Some(parts[1]), host |-> parts[2]]

parse_source(source_component) ==
  IF Contains(source_component, "!")
  THEN SourceFromParts(Split(source_component, "!"))
  ELSE [nick |-> None, host |-> source_component]

\* Mutant: tags.get(key).unwrap_or_default(), an absent tag read as empty.
GetOrDefault(tags, key) ==
  IF key \in DOMAIN tags THEN Ok(tags[key]) ELSE Ok(<<>>)

\* tags.get(key).ok_or(MissingTag(key))
GetOrMissing(tags, key) ==
  IF key \in DOMAIN tags THEN Ok(tags[key]) ELSE Err(MissingTag(key))

\* Mutant: only the first badge of the list is looked at.
FirstIsBroadcaster(badges) ==
  badges # <<>> /\ badges[1].badge = "Broadcaster"

\* badges.iter().any(|b| matches!(b, Badge::Broadcaster(_)))
AnyBroadcaster(badges) ==
  \E i \in 1..Len(badges) : badges[i].badge = "Broadcaster"

\* The PRIVMSG branch once the tag accessors have been evaluated, steps
\* being their results in the order of evaluation: the first error is
\* returned; then the two unwraps, then the value.
PrivmsgFrom(tags, source, parameters, steps) ==
  IF \E i \in 1..Len(steps) : steps[i].kind = "Err"
  THEN steps[CHOOSE i \in 1..Len(steps) :
               steps[i].kind = "Err" /\ \A j \in 1..(i - 1) : steps[j].kind = "Ok"]
  ELSE IF parameters.kind = "None" \/ source.kind = "None" THEN Panic
  ELSE Ok([type |-> "Privmsg",
           tags |-> tags,
           user_context |->
             [username |-> steps[2].val,
              user_id |-> steps[3].val,
              user_type |-> steps[4].val,
              is_turbo |-> steps[5].val,
              is_subscriber |-> steps[6].val,
              is_mod |-> steps[7].val,
              is_first_message |-> steps[8].val,
              is_returning_chatter |-> steps[9].val,
              is_broadcaster |-> AnyBroadcaster(steps[1].val),
              badges |-> steps[1].val],
           source |-> source.val,
           message |-> parameters.val])

\* The PRIVMSG branch of parse_message: the tag accessors in the order the
\* code evaluates them.
parse_privmsg(tags, source, parameters) ==
  PrivmsgFrom(tags, source, parameters,
              <<try_get_badges(tags),
                GetOrMissing(tags, <<"display-name">>),
                GetOrMissing(tags, <<"user-id">>),
                try_get_user_type(tags),
                try_get_bool(tags, <<"turbo">>),
                try_get_bool(tags, <<"subscriber">>),
                try_get_bool(tags, <<"mod">>),
                try_get_bool(tags, <<"first-msg">>),
                try_get_bool(tags, <<"returning-chatter">>)>>)

\* The Notice, Part and Numbered branches: both unwraps, then the value.
WithSourceAndMessage(msg, source, parameters) ==
  IF parameters.kind = "None" \/ source.kind = "None" THEN Panic
  ELSE Ok(msg @@ [source |-> source.val, message |-> parameters.val])

\* The dispatch of parse_message on the command, parsed being the result
\* of parse_tags (an empty map without a tag blob) and number the result of
\* parsing the command's first word as u32.
Dispatch(parsed, source, command, parameters, number) ==
  IF parsed.kind = "Err" THEN parsed
  ELSE IF StartsWith(command, "PING")
  THEN IF parameters.kind = "None" THEN Panic
       ELSE Ok([type |-> "Ping", text |-> parameters.val])
  ELSE IF StartsWith(command, "PRIVMSG")
  THEN parse_privmsg(parsed.val, source, parameters)
  ELSE IF StartsWith(command, "NOTICE")
  THEN WithSourceAndMessage([type |-> "Notice"], source, parameters)
  ELSE IF StartsWith(command, "PART")
  THEN WithSourceAndMessage([type |-> "Part"], source, parameters)
  ELSE IF number.kind = "Ok"
  THEN WithSourceAndMessage([type |-> "Numbered", number |-> number.val],
                            source, parameters)
  ELSE Ok([type |-> "Unknown", command |-> command])

\* parse_message after the match: the unwrap of the captures, then the
\* four components.
ParseCaptures(caps) ==
  IF ~caps.matched THEN Panic
  ELSE Dispatch(IF caps.tags.kind = "Some" THEN parse_tags(caps.tags.val)
                ELSE Ok(EmptyMap),
                IF caps.source.kind = "Some"
                THEN Some(parse_source(caps.source.val)) ELSE None,
                caps.command,
                caps.parameters,
                ParseU32(Split(caps.command, " ")[1]))

parse_message(line) == ParseCaptures(MESSAGE_PATTERN(line))

(***************************************************************************)
(* twitch_client.rs: the session.                                          *)
(***************************************************************************)
VARIABLES
  access_token,    \* TwitchClient.access_token
  nick,            \* TwitchClient.nick
  auto_pong,       \* TwitchClient.auto_pong
  message_buffer,  \* TwitchClient.message_buffer, parse results in order
  ws_stream,       \* TwitchClient.ws_stream: None or Some(stream)
  panicked,        \* the thread driving the session has unwound
  arg,             \* the input of the pure-function specifications
  last,            \* what the last completed call did and returned
  run              \* the record of a run of next() calls, when one is kept

vars == <<access_token, nick, auto_pong, message_buffer, ws_stream, panicked,
          arg, last, run>>

\* error.rs: Error and ConnectionError.
ConnectionError(variant) == [family |-> "ConnectionError", inner |-> variant]
MessageParseError(e) == [family |-> "MessageParseError", inner |-> e]
RefreshAccessTokenError == [family |-> "RefreshAccessTokenError"]

Unit == "()"

(***************************************************************************)
(* Bounds and the inputs drawn from them.                                  *)
(***************************************************************************)
\* Lines in one text frame.
MaxLines == 2
\* Transport reads one next() call may need.
MaxReads == 1
\* Capabilities in one cap_req call.
MaxCaps == 2

SeqsUpTo(S, n) == UNION {[1..k -> S] : k \in 0..n}

PingLine == <<"PING", " ", ":", "tmi.twitch.tv">>
PingLine2 == <<"PING", " ", ":", "keepalive">>
NoticeLine ==
  <<":", "tmi.twitch.tv", " ", "NOTICE", " ", "#", "chan", " ", ":", "hello">>
\* A PRIVMSG without the display-name tag: a parse failure.
MalformedLine ==
  <<"@", "badges", "=", " ", ":", "abc", "!", "abc", "@", "abc.tmi.twitch.tv",
    " ", "PRIVMSG", " ", "#", "chan", " ", ":", "hello">>
\* A PING without a trailing parameter.
BarePingLine == <<"PING">>

SessionLines == {PingLine, PingLine2, NoticeLine, MalformedLine, BarePingLine}

RECURSIVE JoinWith(_, _)
JoinWith(parts, sep) ==
  IF parts = <<>> THEN <<>>
  ELSE IF Len(parts) = 1 THEN parts[1]
  ELSE parts[1] \o <<sep>> \o JoinWith(Tail(parts), sep)

FrameTexts == {JoinWith(ls, "\n") : ls \in SeqsUpTo(SessionLines, MaxLines)}

\* What one poll of the stream yields: a text frame, a frame that is not
\* text, a receive failure, or the end of the stream.
ReadItems ==
  {[kind |-> "Text", text |-> t] : t \in FrameTexts}
    \cup {[kind |-> "Binary"], [kind |-> "Error"], [kind |-> "End"]}

Tokens == {<<"tok">>}
Channels == {<<"chan">>}
ChatTexts == {<<"hi">>}
Capabilities == {"Commands", "Memberships", "Tags"}

(***************************************************************************)
(* Sending.  A call's effect is [result, sends]: sends lists the frames    *)
(* handed to the transport, each with whether the transport took it.       *)
(***************************************************************************)
\* impl fmt::Display for Capability
Capability_to_string(c) ==
  CASE c = "Commands" -> <<"twitch.tv/commands">>
    [] c = "Memberships" -> <<"twitch.tv/membership">>
    [] c = "Tags" -> <<"twitch.tv/tags">>

\* Mutant: the handle is not checked before the frame goes out.
send_unchecked(ws, message, ok) ==
  [result |-> IF ok THEN Ok(Unit) ELSE Err(ConnectionError("SendMessageFailure")),
   sends |-> <<[message |-> message, ok |-> ok]>>]

send(ws, message, ok) ==
  IF ws.kind = "None"
  THEN [result |-> Err(ConnectionError("WebsocketNotConnected")), sends |-> <<>>]
  ELSE [result |-> IF ok THEN Ok(Unit)
                   ELSE Err(ConnectionError("SendMessageFailure")),
        sends |-> <<[message |-> message, ok |-> ok]>>]

pass(ws, token, ok) == send(ws, <<"PASS", " ", "oauth", ":">> \o token, ok)

nick_op(ws, n, ok) == send(ws, <<"NICK", " ">> \o n, ok)

\* Mutant: the result of pass() is dropped and nick() runs regardless.
authenticate_unchecked(ws, token, n, ok1, ok2) ==
  LET p == pass(ws, token, ok1)
      q == nick_op(ws, n, ok2)
  IN [result |-> q.result, sends |-> p.sends \o q.sends]

authenticate(ws, token, n, ok1, ok2) ==
  LET p == pass(ws, token, ok1)
  IN IF p.result.kind = "Err" THEN p
     ELSE LET q == nick_op(ws, n, ok2)
          IN [result |-> q.result, sends |-> p.sends \o q.sends]

cap_req(ws, capabilities, ok) ==
  LET names == [i \in 1..Len(capabilities) |->
                  Capability_to_string(capabilities[i])]
  IN send(ws, <<"CAP", " ", "REQ", " ", ":">> \o JoinWith(names, " "), ok)

join(ws, channel_name, ok) == send(ws, <<"JOIN", " ", "#">> \o channel_name, ok)

\* Mutant: the pong does not carry the payload of the ping.
pong_bare(ws, ping_message, ok) == send(ws, <<"PONG">>, ok)

pong(ws, ping_message, ok) == send(ws, <<"PONG", " ", ":">> \o ping_message, ok)

part(ws, channel_name, ok) == send(ws, <<"PART", " ", "#">> \o channel_name, ok)

privmsg(ws, channel_name, message, ok) ==
  send(ws, <<"PRIVMSG", " ", "#">> \o channel_name \o <<" ", ":">> \o message, ok)

(***************************************************************************)
(* Receiving.                                                              *)
(***************************************************************************)
\* .map_err(Error::MessageParseError) on a buffered parse result.
MapErrParse(r) == IF r.kind = "Err" THEN Err(MessageParseError(r.err)) ELSE r

\* "for line in text.lines() { push_back(parse_message(line)) }": results
\* are pushed in order; a parse that panics ends the loop and the call, the
\* results pushed before it already in the buffer.
\* Mutant: push_front instead of push_back.
RECURSIVE PushLinesFront(_, _)
PushLineFront(r, rest, buf) ==
  IF r.kind = "Panic" THEN [buffer |-> buf, panicked |-> TRUE]
  ELSE PushLinesFront(rest, <<r>> \o buf)

PushLinesFront(lines, buf) ==
  IF lines = <<>> THEN [buffer |-> buf, panicked |-> FALSE]
  ELSE PushLineFront(parse_message(Head(lines)), Tail(lines), buf)

RECURSIVE PushLines(_, _)
\* One turn of the loop, r being the result of parse_message on the line.
PushLine(r, rest, buf) ==
  IF r.kind = "Panic" THEN [buffer |-> buf, panicked |-> TRUE]
  ELSE PushLines(rest, Append(buf, r))

PushLines(lines, buf) ==
  IF lines = <<>> THEN [buffer |-> buf, panicked |-> FALSE]
  ELSE PushLine(parse_message(Head(lines)), Tail(lines), buf)

\* The loop above on each frame text the transport can deliver, tabulated.
FrameResults == [t \in FrameTexts |-> PushLines(TextLines(t), <<>>)]

\* A get_next_message call that returned.
Returned(result, buffer, unread) ==
  [blocked |-> FALSE, result |-> result, buffer |-> buffer, unread |-> unread]

\* Mutant: a frame that is not text is reported as a receive failure.
non_text_frame_error(buf, rest) ==
  Returned(Some(Err(ConnectionError("ReceiveMessageFailure"))), buf, rest)

\* "None // Should return Some(Err())": the frame is not text.
non_text_frame(buf, rest) == Returned(None, buf, rest)

\* "self.message_buffer.pop_front()?.map_err(..)" after the loop over the
\* lines of a text frame, buffer being the queue the loop left.
PopAfterPush(buffer, unwound, rest) ==
  IF unwound THEN Returned(Panic, buffer, rest)
  ELSE IF buffer = <<>> THEN Returned(None, buffer, rest)
  ELSE Returned(Some(MapErrParse(Head(buffer))), Tail(buffer), rest)

\* The text-frame branch, pushed being what the loop over the lines of the
\* frame pushes.
text_frame(buf, pushed, rest) ==
  PopAfterPush(buf \o pushed.buffer, pushed.panicked, rest)

\* get_next_message on buffer buf and handle ws, script being what the
\* stream yields to successive polls.  blocked: the call polls a stream that
\* has nothing to yield yet.
get_next_message(buf, ws, script) ==
  IF buf # <<>>
  THEN Returned(Some(MapErrParse(Head(buf))), Tail(buf), script)
  ELSE IF ws.kind = "None"
  THEN Returned(Some(Err(ConnectionError("WebsocketNotConnected"))), buf, script)
  ELSE IF script = <<>> THEN [blocked |-> TRUE]
  ELSE CASE Head(script).kind = "End" -> Returned(None, buf, Tail(script))
         [] Head(script).kind = "Error" ->
              Returned(Some(Err(ConnectionError("ReceiveMessageFailure"))),
                       buf, Tail(script))
         [] Head(script).kind = "Binary" -> non_text_frame(buf, Tail(script))
         [] Head(script).kind = "Text" ->
              text_frame(buf, FrameResults[Head(script).text], Tail(script))

IsPing(result) ==
  /\ result.kind = "Some"
  /\ result.val.kind = "Ok"
  /\ result.val.val.type = "Ping"

\* One get_next_message call as next() saw it: the buffer before and after,
\* what the stream yielded to it (at most one item) and what it returned.
GetRecord(buf, script, g) ==
  [buffer_before |-> buf, buffer_after |-> g.buffer, result |-> g.result,
   polled |-> SubSeq(script, 1, Len(script) - Len(g.unread))]

\* What next() hands back when it returns.
NextReturned(result, g, sends, gets) ==
  [blocked |-> FALSE, result |-> result, buffer |-> g.buffer,
   unread |-> g.unread, sends |-> sends, gets |-> gets]

RECURSIVE next_loop(_, _, _, _, _, _, _)

\* Mutant: a refused pong is ignored and the loop goes on.
next_round_ignoring(ws, auto, failAt, sends, gets, g, p) ==
  IF g.blocked THEN g
  ELSE IF auto /\ IsPing(g.result)
  THEN next_loop(g.buffer, ws, auto, g.unread, failAt, sends \o p.sends, gets)
  ELSE NextReturned(g.result, g, sends, gets)

\* One turn of the loop of next(), g being what get_next_message returned
\* and p what pong does with the payload of a Ping: a Ping is answered and
\* the loop goes on, unless the pong fails; anything else is returned.
next_round(ws, auto, failAt, sends, gets, g, p) ==
  IF g.blocked THEN g
  ELSE IF auto /\ IsPing(g.result)
  THEN IF p.result.kind = "Err"
       THEN NextReturned(Some(p.result), g, sends \o p.sends, gets)
       ELSE next_loop(g.buffer, ws, auto, g.unread, failAt,
                      sends \o p.sends, gets)
  ELSE NextReturned(g.result, g, sends, gets)

\* The turn on what get_next_message returned.
next_after_get(buf, ws, auto, script, failAt, sends, gets, g) ==
  next_round(ws, auto, failAt, sends, Append(gets, GetRecord(buf, script, g)),
             g, pong(ws, g.result.val.val.text, Len(sends) + 1 # failAt))

\* The loop of next(): failAt numbers the send of this call that the
\* transport refuses (0: none); sends and gets accumulate the traffic and
\* the get_next_message calls of the loop.
next_loop(buf, ws, auto, script, failAt, sends, gets) ==
  next_after_get(buf, ws, auto, script, failAt, sends, gets,
                 get_next_message(buf, ws, script))

next(buf, ws, auto, script, failAt) ==
  next_loop(buf, ws, auto, script, failAt, <<>>, <<>>)

(***************************************************************************)
(* The state machine.                                                      *)
(***************************************************************************)
\* next() returned None after the stream yielded a frame that is not text.
NoneOnBinary(c) ==
  /\ c.op = "next"
  /\ c.result.kind = "None"
  /\ c.reads # <<>>
  /\ c.reads[Len(c.reads)].kind = "Binary"

\* What a call leaves in last: the operation, its result, the transport
\* traffic it caused (sends, reads), the get_next_message calls it made, the
\* session as it was when the call started, and whether the call before it
\* was a next() that ended on a non-text frame.
Call(op, result, sends, reads, gets) ==
  [op |-> op, result |-> result, sends |-> sends, reads |-> reads,
   gets |-> gets,
   buffer_before |-> message_buffer, ws_before |-> ws_stream,
   token_before |-> access_token, follows_none |-> NoneOnBinary(last)]

NoCall ==
  [op |-> "new", result |-> Ok(Unit), sends |-> <<>>, reads |-> <<>>,
   gets |-> <<>>,
   buffer_before |-> <<>>, ws_before |-> None, token_before |-> <<>>,
   follows_none |-> FALSE]

\* TwitchClient::new
Init ==
  /\ access_token = <<>>
  /\ nick = <<"bot">>
  /\ auto_pong \in BOOLEAN
  /\ message_buffer = <<>>
  /\ ws_stream = None
  /\ panicked = FALSE
  /\ arg = <<>>
  /\ last = NoCall
  /\ run = None

UpdateAccessToken ==
  /\ ~panicked
  /\ \E r \in {Ok(t) : t \in Tokens} \cup {Err(RefreshAccessTokenError)} :
       /\ access_token' = IF r.kind = "Ok" THEN r.val ELSE access_token
       /\ last' = Call("update_access_token",
                       IF r.kind = "Ok" THEN Ok(Unit) ELSE r, <<>>, <<>>, <<>>)
  /\ UNCHANGED <<nick, auto_pong, message_buffer, ws_stream, panicked, arg, run>>

Connect ==
  /\ ~panicked
  /\ \E ok \in BOOLEAN :
       /\ ws_stream' = IF ok THEN Some("stream") ELSE ws_stream
       /\ last' = Call("connect",
                       IF ok THEN Ok(Unit)
                       ELSE Err(ConnectionError("WebsocketConnectionError")),
                       <<>>, <<>>, <<>>)
  /\ UNCHANGED <<access_token, nick, auto_pong, message_buffer, panicked, arg, run>>

\* A sending operation changes nothing of the session.
Sent(op, effect) ==
  /\ ~panicked
  /\ last' = Call(op, effect.result, effect.sends, <<>>, <<>>)
  /\ UNCHANGED <<access_token, nick, auto_pong, message_buffer, ws_stream,
                 panicked, arg, run>>

Authenticate ==
  \E ok1, ok2 \in BOOLEAN :
    Sent("authenticate", authenticate(ws_stream, access_token, nick, ok1, ok2))

Pass == \E ok \in BOOLEAN : Sent("pass", pass(ws_stream, access_token, ok))

Nick == \E ok \in BOOLEAN : Sent("nick", nick_op(ws_stream, nick, ok))

CapReq ==
  \E ok \in BOOLEAN, caps \in SeqsUpTo(Capabilities, MaxCaps) :
    Sent("cap_req", cap_req(ws_stream, caps, ok))

Join ==
  \E ok \in BOOLEAN, c \in Channels : Sent("join", join(ws_stream, c, ok))

Part ==
  \E ok \in BOOLEAN, c \in Channels : Sent("part", part(ws_stream, c, ok))

Pong ==
  \E ok \in BOOLEAN, t \in ChatTexts : Sent("pong", pong(ws_stream, t, ok))

Privmsg ==
  \E ok \in BOOLEAN, c \in Channels, t \in ChatTexts :
    Sent("privmsg", privmsg(ws_stream, c, t, ok))

\* The result of each line of a frame text, in the order of the lines.
LineResults(text) ==
  LET lines == TextLines(text)
  IN [i \in 1..Len(lines) |-> parse_message(lines[i])]

\* Calls of next() in a recorded run.
MaxCalls == 3

\* The results of the lines of the text frames of a script, in the order of
\* the lines.
RECURSIVE ScriptLineResults(_)
ScriptLineResults(script) ==
  IF script = <<>> THEN <<>>
  ELSE (IF Head(script).kind = "Text" THEN LineResults(Head(script).text)
        ELSE <<>>)
       \o ScriptLineResults(Tail(script))

\* A line result as next() returns it, not a transport error.
IsLineResult(result) ==
  /\ result.kind = "Some"
  /\ result.val.kind = "Ok" \/ result.val.err.family = "MessageParseError"

\* The messages of the sends the transport took.
TakenSends(sends) ==
  LET taken == SelectSeq(sends, LAMBDA snd : snd.ok)
  IN [i \in 1..Len(taken) |-> taken[i].message]

NewRun ==
  [calls |-> 0, arrived |-> <<>>, returned |-> <<>>, pongs |-> <<>>,
   sends_ok |-> TRUE]

\* The record of a run after one more call of next(): the line results of
\* the frames the stream yielded so far, the line results returned to the
\* caller, the pongs the transport took, and whether it took every send.
Recorded(r, script, n) ==
  IF r.kind = "None" THEN r
  ELSE Some([calls |-> r.val.calls + 1,
             arrived |-> r.val.arrived \o ScriptLineResults(script),
             returned |-> r.val.returned \o
                            (IF IsLineResult(n.result) THEN <<n.result.val>>
                             ELSE <<>>),
             pongs |-> r.val.pongs \o TakenSends(n.sends),
             sends_ok |-> r.val.sends_ok /\ \A i \in 1..Len(n.sends) : n.sends[i].ok])

\* The scripts one call of next() can consume: the call polls the stream
\* again each time it finds nothing to return, MaxReads polls at most.
RECURSIVE Polled(_, _)
PolledFrom(script, failAt, n) ==
  IF ~n.blocked THEN IF n.unread = <<>> THEN {script} ELSE {}
  ELSE IF Len(script) >= MaxReads THEN {}
  ELSE UNION {Polled(Append(script, item), failAt) : item \in ReadItems}

Polled(script, failAt) ==
  PolledFrom(script, failAt,
             next(message_buffer, ws_stream, auto_pong, script, failAt))

\* What a completed next() leaves in the session.
Delivered(script, failAt, n) ==
  /\ failAt <= Len(n.sends)
  /\ message_buffer' = n.buffer
  /\ panicked' = (n.result.kind = "Panic")
  /\ last' = Call("next", n.result, n.sends, script, n.gets)
  /\ run' = Recorded(run, script, n)

\* One call of next(): script is what the stream yields to the polls of
\* this call, all of it consumed.
NextMessage ==
  /\ ~panicked
  /\ run.kind = "Some" => run.val.calls < MaxCalls
  /\ \E failAt \in 0..(Len(message_buffer) + MaxReads * MaxLines) :
       \E script \in Polled(<<>>, failAt) :
         Delivered(script, failAt,
                   next(message_buffer, ws_stream, auto_pong, script, failAt))
  /\ UNCHANGED <<access_token, nick, auto_pong, ws_stream, arg>>

Next ==
  \/ UpdateAccessToken
  \/ Connect
  \/ Authenticate
  \/ Pass
  \/ Nick
  \/ CapReq
  \/ Join
  \/ Part
  \/ Pong
  \/ Privmsg
  \/ NextMessage

Spec == Init /\ [][Next]_vars

(***************************************************************************)
(* Properties of the session.                                              *)
(***************************************************************************)
SendOps ==
  {"authenticate", "pass", "nick", "cap_req", "join", "part", "pong", "privmsg"}

NotConnected == Err(ConnectionError("WebsocketNotConnected"))
SendFailure == Err(ConnectionError("SendMessageFailure"))

\* The results that come before the first line without a result.
RECURSIVE BeforePanic(_)
BeforePanic(rs) ==
  IF rs = <<>> \/ Head(rs).kind = "Panic" THEN <<>>
  ELSE <<Head(rs)>> \o BeforePanic(Tail(rs))

EveryLineHasResult(text) ==
  \A i \in 1..Len(LineResults(text)) : LineResults(text)[i].kind # "Panic"

\* The line results the frames of reads put into the queue, in order.
RECURSIVE Arrived(_)
Arrived(reads) ==
  IF reads = <<>> THEN <<>>
  ELSE (IF Head(reads).kind = "Text"
        THEN BeforePanic(LineResults(Head(reads).text)) ELSE <<>>)
       \o Arrived(Tail(reads))

\* Everything the last next() call could take from, front first, and the
\* part of it the call took (what is left is message_buffer).
Available == last.buffer_before \o Arrived(last.reads)
Dequeued == SubSeq(Available, 1, Len(Available) - Len(message_buffer))

IsPingEntry(r) == r.kind = "Ok" /\ r.val.type = "Ping"
PongFor(r) == <<"PONG", " ", ":">> \o r.val.text

C2_AutoPong ==
  (last.op = "next" /\ auto_pong) =>
    LET pings == SelectSeq(Dequeued, IsPingEntry)
        n == Len(Dequeued)
    IN /\ Len(last.sends) = Len(pings)
       /\ \A i \in 1..Len(pings) : last.sends[i].message = PongFor(pings[i])
       /\ ~IsPing(last.result)
       /\ \A i \in 1..(n - 1) : IsPingEntry(Dequeued[i])
       /\ IF IsLineResult(last.result)
          THEN n >= 1 /\ last.result = Some(MapErrParse(Dequeued[n]))
          ELSE \A i \in 1..n : IsPingEntry(Dequeued[i])

\* A next() call that answered a queued Ping and then returned a result it
\* had to read from the transport.
C2_Witness ==
  /\ last.op = "next"
  /\ auto_pong
  /\ last.buffer_before # <<>>
  /\ last.reads # <<>>
  /\ Len(last.sends) = 1
  /\ last.sends[1].ok
  /\ last.result.kind = "Some"
  /\ last.result.val.kind = "Ok"

\* C3: every line of a text frame that next() reads gets an entry in the
\* queue, a malformed line an error entry, and the session stays usable.
C3_PerLineFailures ==
  (last.op = "next" /\ last.reads # <<>>) =>
    /\ ~panicked
    /\ \A i \in 1..Len(last.reads) :
         last.reads[i].kind = "Text" => EveryLineHasResult(last.reads[i].text)

\* C4: no line received from the network makes the call panic.
C4_NoPanic == last.result.kind # "Panic"

\* C5: before any successful connect(), the sending operations and next()
\* return the not-connected error, cause no transport traffic and leave the
\* session as it was.
C5_NotConnected ==
  (last.ws_before.kind = "None" /\ last.op \in SendOps \cup {"next"}) =>
    /\ last.result = IF last.op = "next" THEN Some(NotConnected) ELSE NotConnected
    /\ last.sends = <<>>
    /\ last.reads = <<>>
    /\ last.buffer_before = <<>>
    /\ message_buffer = <<>>
    /\ access_token = last.token_before
    /\ ws_stream = None

\* authenticate() before connect(), the access token already refreshed.
C5_Witness ==
  /\ last.op = "authenticate"
  /\ last.ws_before.kind = "None"
  /\ access_token # <<>>

\* C6: authenticate() sends "PASS oauth:<token>" first and "NICK <nick>"
\* only after the PASS send succeeded; a failed PASS send ends the call with
\* that error and no NICK; a failed NICK send is returned.
C6_PassBeforeNick ==
  (last.op = "authenticate" /\ last.ws_before.kind = "Some") =>
    /\ Len(last.sends) \in {1, 2}
    /\ last.sends[1].message = <<"PASS", " ", "oauth", ":">> \o last.token_before
    /\ ~last.sends[1].ok => (Len(last.sends) = 1 /\ last.result = SendFailure)
    /\ last.sends[1].ok =>
         /\ Len(last.sends) = 2
         /\ last.sends[2].message = <<"NICK", " ">> \o nick
         /\ last.result = IF last.sends[2].ok THEN Ok(Unit) ELSE SendFailure

\* authenticate() whose PASS send failed.
C6_Witness ==
  /\ last.op = "authenticate"
  /\ Len(last.sends) = 1
  /\ ~last.sends[1].ok
  /\ last.token_before # <<>>

\* C7: with auto_pong, when the pong for a dequeued Ping is refused, next()
\* returns that send error at once: the refused pong is its last send, the
\* Ping is the last element it dequeued, it polled no frame after the one
\* that brought the Ping, and what was behind the Ping is still queued in
\* order.
C7_PongFailure ==
  (last.op = "next" /\ auto_pong
   /\ \E i \in 1..Len(last.sends) : ~last.sends[i].ok) =>
    LET k == Len(Dequeued)
    IN /\ last.result = Some(SendFailure)
       /\ \A i \in 1..Len(last.sends) : last.sends[i].ok <=> i < Len(last.sends)
       /\ k >= 1
       /\ IsPingEntry(Available[k])
       /\ last.sends[Len(last.sends)].message = PongFor(Available[k])
       /\ message_buffer = SubSeq(Available, k + 1, Len(Available))
       /\ last.reads # <<>> =>
            k > Len(last.buffer_before)
                  + Len(Arrived(SubSeq(last.reads, 1, Len(last.reads) - 1)))

\* A refused pong with a result still queued behind the Ping.
C7_Witness ==
  /\ last.op = "next"
  /\ auto_pong
  /\ last.sends # <<>>
  /\ ~last.sends[Len(last.sends)].ok
  /\ message_buffer # <<>>

MaxBlobLen == 6

TagAlphabet == {"aa", "bb", "=", ";"}

Constructed ==
  /\ access_token = <<>>
  /\ nick = <<"bot">>
  /\ auto_pong = FALSE
  /\ message_buffer = <<>>
  /\ ws_stream = None
  /\ panicked = FALSE
  /\ last = NoCall
  /\ run = None

InitTags == Constructed /\ arg \in SeqsUpTo(TagAlphabet, MaxBlobLen)

ParseTags ==
  /\ last.op = "new"
  /\ last' = Call("parse_tags", parse_tags(arg), <<>>, <<>>, <<>>)
  /\ UNCHANGED <<access_token, nick, auto_pong, message_buffer, ws_stream,
                 panicked, arg, run>>

NextTags == ParseTags

SpecTags == InitTags /\ [][NextTags]_vars

\* The entries of a blob, and the key and the value of an entry: the text
\* before its first '=' and all of the text after it.
BlobEntries(blob) == Split(blob, ";")
FirstEq(e) == CHOOSE i \in 1..Len(e) : e[i] = "=" /\ \A j \in 1..(i - 1) : e[j] # "="
EntryKey(e) == SubSeq(e, 1, FirstEq(e) - 1)
EntryValue(e) == SubSeq(e, FirstEq(e) + 1, Len(e))

\* A blob of ';'-separated key=value entries, every key non-empty and
\* present once.
ValidBlob(blob) ==
  LET es == BlobEntries(blob)
  IN /\ \A i \in 1..Len(es) : Contains(es[i], "=") /\ EntryKey(es[i]) # <<>>
     /\ \A i, j \in 1..Len(es) : EntryKey(es[i]) = EntryKey(es[j]) => i = j

\* C9: parse_tags succeeds on every valid blob, and looking up the key of
\* each entry returns that entry's value, the empty value included.
C9_RoundTrip ==
  (last.op = "parse_tags" /\ ValidBlob(arg)) =>
    /\ last.result.kind = "Ok"
    /\ \A i \in 1..Len(BlobEntries(arg)) :
         LET e == BlobEntries(arg)[i]
         IN MapGet(last.result.val, EntryKey(e)) = Ok(EntryValue(e))

(***************************************************************************)
(* parse_message on PRIVMSG lines built from a choice, for each required   *)
(* tag, of a valid value, a value the accessor rejects, or no tag at all.  *)
(***************************************************************************)
\* Required tags of one line that are missing or malformed.
MaxBad == 2

BoolTags == {"turbo", "subscriber", "mod", "first-msg", "returning-chatter"}

RequiredTags == {"display-name", "user-id", "user-type", "badges"} \cup BoolTags

\* The tags in the order the lines of the tests of irc.rs carry them.
TagOrder ==
  <<"user-type", "user-id", "badges", "mod", "returning-chatter", "first-msg",
    "turbo", "subscriber", "display-name">>

TagModes(t) ==
  CASE t \in {"display-name", "user-id"} -> {"valid", "missing"}
    [] t = "badges" -> {"valid", "missing", "malformed", "badversion"}
    [] OTHER -> {"valid", "missing", "malformed"}

TagValue(t, mode) ==
  CASE mode = "malformed" /\ t = "badges" -> <<"broadcaster">>
    [] mode = "badversion" -> <<"broadcaster", "/", "xx">>
    [] mode = "malformed" /\ t = "user-type" -> <<"mod">>
    [] mode = "malformed" -> <<"yes">>
    [] t = "display-name" -> <<"abc">>
    [] t = "user-id" -> <<"1", "2">>
    [] t = "user-type" -> <<>>
    [] t = "badges" -> <<"broadcaster", "/", "1">>
    [] t \in {"mod", "turbo"} -> <<"1">>
    [] OTHER -> <<"0">>

\* The ways to spoil the tags of the set B, one bad mode for each.
BadModes(B) ==
  {f \in [B -> {"missing", "malformed", "badversion"}] :
     \A t \in B : f[t] \in TagModes(t)}

ModeChoices ==
  UNION {{[t \in RequiredTags |-> IF t \in B THEN f[t] ELSE "valid"] :
            f \in BadModes(B)} :
         B \in {S \in SUBSET RequiredTags : Cardinality(S) <= MaxBad}}

PrivmsgChoices ==
  {[modes |-> m, source |-> src, trailing |-> tr] :
     m \in ModeChoices, src \in BOOLEAN, tr \in BOOLEAN}

PrivmsgLine(c) ==
  LET present == SelectSeq(TagOrder, LAMBDA t : c.modes[t] # "missing")
      entries == [i \in 1..Len(present) |->
                    <<present[i], "=">> \o TagValue(present[i], c.modes[present[i]])]
  IN (IF present = <<>> THEN <<>> ELSE <<"@">> \o JoinWith(entries, ";") \o <<" ">>)
     \o (IF c.source
         THEN <<":", "abc", "!", "abc", "@", "abc.tmi.twitch.tv", " ">> ELSE <<>>)
     \o <<"PRIVMSG", " ", "#", "xyz">>
     \o (IF c.trailing THEN <<" ", ":", "HeyGuys">> ELSE <<>>)

InitPrivmsg == Constructed /\ arg \in PrivmsgChoices

ParseMessage ==
  /\ last.op = "new"
  /\ last' = Call("parse_message", parse_message(PrivmsgLine(arg)), <<>>, <<>>, <<>>)
  /\ UNCHANGED <<access_token, nick, auto_pong, message_buffer, ws_stream,
                 panicked, arg, run>>

NextPrivmsg == ParseMessage

SpecPrivmsg == InitPrivmsg /\ [][NextPrivmsg]_vars

BadTags(c) == {t \in RequiredTags : c.modes[t] # "valid"}

\* The error a required tag's accessor reports for a missing or malformed
\* tag.
TagError(t, mode) ==
  CASE mode = "missing" -> MissingTag(<<t>>)
    [] mode = "badversion" -> InvalidBadgeVersion(TagValue(t, mode))
    [] t = "badges" -> InvalidBadge(TagValue(t, mode))
    [] t = "user-type" -> InvalidTag(TagValue(t, mode))
    [] OTHER -> InvalidBoolValue(<<t>>, TagValue(t, mode))

\* C10: a PRIVMSG line with a missing or malformed required tag never
\* parses to a value; when one required tag alone is missing or malformed
\* the result is that tag's error (MissingTag("display-name") for a line
\* without display-name); only a line with all of them valid is a Privmsg.
C10_AllOrNothing ==
  last.op = "parse_message" =>
    /\ BadTags(arg) # {} => last.result.kind = "Err"
    /\ \A t \in RequiredTags :
         BadTags(arg) = {t} => last.result = Err(TagError(t, arg.modes[t]))
    /\ (last.result.kind = "Ok" /\ last.result.val.type = "Privmsg") =>
         BadTags(arg) = {}

\* The line of the tests without its display-name tag, parsed.
C10_Witness ==
  /\ last.op = "parse_message"
  /\ BadTags(arg) = {"display-name"}
  /\ arg.source
  /\ arg.trailing
  /\ last.result = Err(MissingTag(<<"display-name">>))

(***************************************************************************)
(* parse_message on PRIVMSG lines whose required tags are all present,     *)
(* built from a list of badge entries and a choice of the other tags.      *)
(***************************************************************************)
\* Entries in the value of the badges tag.
MaxBadges == 2

\* The entries a badges value is made of: the text of the entry and, for a
\* well-formed one, the badge it denotes.  An empty entry denotes none.
BadgeEntries ==
  {[text |-> <<"broadcaster", "/", "1">>, form |-> "badge",
    badge |-> "Broadcaster", version |-> 1],
   [text |-> <<"moderator", "/", "1">>, form |-> "badge",
    badge |-> "Moderator", version |-> 1],
   [text |-> <<"vip", "/", "2">>, form |-> "badge",
    badge |-> "Other", version |-> 2],
   [text |-> <<>>, form |-> "empty"],
   [text |-> <<"broadcaster">>, form |-> "malformed"]}

BadgeChoices ==
  [entries : SeqsUpTo(BadgeEntries, MaxBadges),
   mod : {"0", "1"},
   subscriber : {"0", "1"},
   user_type : {<<>>, <<"staff">>},
   extra : BOOLEAN]

\* The value of the badges tag: the entries joined by ','.
BadgesValue(c) ==
  JoinWith([i \in 1..Len(c.entries) |-> c.entries[i].text], ",")

\* The line of test_is_broadcaster with the chosen tags; extra adds a tag
\* named broadcaster, which no accessor reads.
BadgeLine(c) ==
  <<"@", "user-type", "=">> \o c.user_type
    \o <<";", "user-id", "=", "1", ";", "badges", "=">> \o BadgesValue(c)
    \o <<";", "mod", "=", c.mod, ";", "returning-chatter", "=", "1", ";",
         "first-msg", "=", "0", ";", "turbo", "=", "0", ";",
         "subscriber", "=", c.subscriber>>
    \o (IF c.extra THEN <<";", "broadcaster", "=", "1">> ELSE <<>>)
    \o <<";", "display-name", "=", "abc", " ",
         ":", "abc", "!", "abc", "@", "abc.tmi.twitch.tv", " ",
         "PRIVMSG", " ", "#", "xyz", " ", ":", "HeyGuys">>

InitBadges == Constructed /\ arg \in BadgeChoices

ParseBadges ==
  /\ last.op = "new"
  /\ last' = Call("parse_message", parse_message(BadgeLine(arg)), <<>>, <<>>, <<>>)
  /\ UNCHANGED <<access_token, nick, auto_pong, message_buffer, ws_stream,
                 panicked, arg, run>>

NextBadges == ParseBadges

SpecBadges == InitBadges /\ [][NextBadges]_vars

\* The badges the entries of a choice denote, in order, empty entries
\* skipped.
RECURSIVE DenotedBadges(_)
DenotedBadges(entries) ==
  IF entries = <<>> THEN <<>>
  ELSE (IF Head(entries).form = "badge"
        THEN <<[badge |-> Head(entries).badge, version |-> Head(entries).version]>>
        ELSE <<>>)
       \o DenotedBadges(Tail(entries))

WellFormedBadges(c) ==
  \A i \in 1..Len(c.entries) : c.entries[i].form # "malformed"

HasBroadcaster(c) ==
  \E i \in 1..Len(c.entries) :
    c.entries[i].form = "badge" /\ c.entries[i].badge = "Broadcaster"

IsPrivmsg(r) == r.kind = "Ok" /\ r.val.type = "Privmsg"

\* C11: a line whose badge entries are all well formed parses to a
\* Privmsg; in every Privmsg the badge list is the list the entries of the
\* badges tag denote, and is_broadcaster is true exactly when one of them
\* is a Broadcaster badge, whatever the other tags are: "broadcaster/1"
\* gives [Broadcaster(1)] and true, the empty value gives [] and false.
C11_BroadcasterFromBadges ==
  last.op = "parse_message" =>
    /\ WellFormedBadges(arg) => IsPrivmsg(last.result)
    /\ IsPrivmsg(last.result) =>
         /\ WellFormedBadges(arg)
         /\ last.result.val.user_context.badges = DenotedBadges(arg.entries)
         /\ last.result.val.user_context.is_broadcaster = HasBroadcaster(arg)
         /\ BadgesValue(arg) = <<"broadcaster", "/", "1">> =>
              /\ last.result.val.user_context.badges =
                   <<[badge |-> "Broadcaster", version |-> 1]>>
              /\ last.result.val.user_context.is_broadcaster
         /\ BadgesValue(arg) = <<>> =>
              /\ last.result.val.user_context.badges = <<>>
              /\ ~last.result.val.user_context.is_broadcaster

\* A Privmsg whose second badge is the Broadcaster badge, parsed from a
\* line that also carries mod=1 and a tag named broadcaster.
C11_Witness ==
  /\ last.op = "parse_message"
  /\ IsPrivmsg(last.result)
  /\ Len(arg.entries) = 2
  /\ arg.entries[1].form = "badge" /\ arg.entries[1].badge = "Moderator"
  /\ arg.entries[2].form = "badge" /\ arg.entries[2].badge = "Broadcaster"
  /\ arg.mod = "1"
  /\ arg.extra
  /\ last.result.val.user_context.is_broadcaster

(***************************************************************************)
(* parse_source on bounded source blobs.                                   *)
(***************************************************************************)
\* Tokens in one source blob.
MaxSourceLen == 4

SourceAlphabet == {"nick", "host.example", "!", "@"}

\* The source group of MESSAGE_PATTERN is "\S+": the blob is not empty.
SourceBlobs == SeqsUpTo(SourceAlphabet, MaxSourceLen) \ {<<>>}

InitSource == Constructed /\ arg \in SourceBlobs

ParseSource ==
  /\ last.op = "new"
  /\ last' = Call("parse_source", parse_source(arg), <<>>, <<>>, <<>>)
  /\ UNCHANGED <<access_token, nick, auto_pong, message_buffer, ws_stream,
                 panicked, arg, run>>

NextSource == ParseSource

SpecSource == InitSource /\ [][NextSource]_vars

\* The position of the first '!' of a blob that has one.
FirstBang(blob) ==
  CHOOSE i \in 1..Len(blob) : blob[i] = "!" /\ \A j \in 1..(i - 1) : blob[j] # "!"

\* C12: for a blob with a '!', nick is the text before the first '!' and
\* host all of the text after it; for a blob without one, nick is absent
\* and host is the whole blob.
C12_SplitOnFirstBang ==
  last.op = "parse_source" =>
    IF Contains(arg, "!")
    THEN /\ last.result.nick = Some(SubSeq(arg, 1, FirstBang(arg) - 1))
         /\ last.result.host = SubSeq(arg, FirstBang(arg) + 1, Len(arg))
    ELSE /\ last.result.nick = None
         /\ last.result.host = arg

(***************************************************************************)
(* Runs of next() calls on a session that keeps the record of the run.     *)
(***************************************************************************)
InitRun ==
  /\ access_token = <<>>
  /\ nick = <<"bot">>
  /\ auto_pong \in BOOLEAN
  /\ message_buffer = <<>>
  /\ ws_stream = None
  /\ panicked = FALSE
  /\ arg = <<>>
  /\ last = NoCall
  /\ run = Some(NewRun)

NextRun == Connect \/ NextMessage

SpecRun == InitRun /\ [][NextRun]_vars

\* The line results of the run that are no longer in the queue, in arrival
\* order.
Consumed ==
  SubSeq(run.val.arrived, 1, Len(run.val.arrived) - Len(message_buffer))

\* A Ping result that next() answers instead of returning.
Answered(r) == auto_pong /\ IsPingEntry(r)
Passed(r) == ~Answered(r)

\* The line results the caller got, the queue and the pongs account for
\* every line of every text frame read so far, in arrival order.
Conserved ==
  /\ Len(message_buffer) <= Len(run.val.arrived)
  /\ run.val.arrived = Consumed \o message_buffer
  /\ run.val.returned =
       [i \in 1..Len(SelectSeq(Consumed, Passed)) |->
          MapErrParse(SelectSeq(Consumed, Passed)[i])]
  /\ run.val.pongs =
       [i \in 1..Len(SelectSeq(Consumed, Answered)) |->
          PongFor(SelectSeq(Consumed, Answered)[i])]

\* C13: in a run of next() calls in which the transport took every send,
\* the results returned to the caller followed by the results still in
\* message_buffer are, in arrival order, the results of all the lines of all
\* the text frames read so far, without (under auto_pong) the Ping results
\* that left the queue, each of which was answered by one pong.
C13_Conservation ==
  (run.kind = "Some" /\ run.val.sends_ok) => Conserved

\* Every line of the run has a parse result.
NoLineWithoutResult ==
  \A i \in 1..Len(run.val.arrived) : run.val.arrived[i].kind # "Panic"

\* The same for the runs in which parse_message returned for every line.
ConservedWhenParsed ==
  (run.kind = "Some" /\ run.val.sends_ok /\ NoLineWithoutResult) => Conserved

\* Two calls on one frame of two lines: the first result returned, then the
\* second, the queue empty again.
ConservedWitness ==
  /\ run.kind = "Some"
  /\ run.val.sends_ok
  /\ NoLineWithoutResult
  /\ run.val.calls = 2
  /\ Len(run.val.arrived) = 2
  /\ Len(run.val.returned) = 2
  /\ message_buffer = <<>>

====
